---------------------------- MODULE Spec2Model ----------------------------
(***************************************************************************)
(* Raster import of OpenTTD-JGRPP: raster_import.cpp (ApplyRasterToMap,    *)
(* SampleQuantizedGradient, the seven tile classifiers, LoadRaster) and    *)
(* raster_io.{h,cpp} (IsValidRasterDimension, ReadRasterFile).             *)
(*                                                                         *)
(* Integers of the program are 32-bit.  Every product below stays under    *)
(* 2^31 for the inputs of the model, except where noted; where the code    *)
(* needs more width the arithmetic is carried out on 16-bit limbs.         *)
(***************************************************************************)
EXTENDS Integers, Sequences, FiniteSets, TLC

VARIABLES
    smp,    \* one call of SampleQuantizedGradient
    dim,    \* one call of IsValidRasterDimension
    inp,    \* LoadRaster: its arguments, the file, the settings and the map size
    lr,     \* LoadRaster: its position and its locals x, y, raster
    ap,     \* ApplyRasterToMap: its locals
    fx,     \* what the run has done to the map, the heap and the screen
    cl      \* one call of a tile classifier (a TileRasterCallback)

vars == <<smp, dim, inp, lr, ap, fx, cl>>

loadVars == <<inp, lr, ap, fx>>

(***************************************************************************)
(* C++ integer arithmetic                                                  *)
(***************************************************************************)
Abs(a) == IF a < 0 THEN -a ELSE a

Max(a, b) == IF a > b THEN a ELSE b

Min(a, b) == IF a < b THEN a ELSE b

\* int / int of C++: the quotient is truncated towards zero.
CDiv(a, b) == IF (a >= 0) = (b >= 0) THEN Abs(a) \div Abs(b) ELSE -(Abs(a) \div Abs(b))

\* int % int of C++: the remainder has the sign of the dividend.
CMod(a, b) == a - b * CDiv(a, b)

(***************************************************************************)
(* Program constants                                                       *)
(***************************************************************************)
LOWER_CUTOFF == 15

UPPER_CUTOFF == 240

\* 2 * (1 << 16)
MAX_RASTER_SIDE_LENGTH_IN_PIXELS == 2 * 65536

\* 256 << 20
MAX_RASTER_SIZE_PIXELS == 256 * 1048576

\* Defines the detail of the aspect ratio (ApplyRasterToMap).
num_div == 16384

(***************************************************************************)
(* Bounds of the model                                                     *)
(***************************************************************************)
\* SampleQuantizedGradient is tried with 1..MaxLevel levels.
MaxLevel == 6

\* Width of the narrow gradients tried beside the LOWER_CUTOFF..UPPER_CUTOFF one.
NarrowSpan == 3

\* IsValidRasterDimension is tried this far on either side of each limit.
DimSlack == 1

\* The map is 2^MinMapLog .. 2^MaxMapLog tiles along each axis.
MinMapLog == 3

MaxMapLog == 4

Bytes == 0..255

(***************************************************************************)
(* Unsigned integers wider than 31 bits, on 16-bit limbs, most significant *)
(* limb first: <<hi, lo>> is a uint32, <<l3, l2, l1, l0>> a uint64.        *)
(***************************************************************************)
Limb == 65536

\* The uint32 of a number below 2^31.
ToU32(n) == <<n \div Limb, n % Limb>>

\* The uint64 of a number below 2^31.
ToU64(n) == <<0, 0, n \div Limb, n % Limb>>

\* The product of two limbs, as a uint32; no intermediate reaches 2^31.
MulLimbs(a, b) ==
    LET p1 == (a \div 256) * b
        p0 == (a % 256) * b
        low == (p1 % 256) * 256 + p0
    IN  <<(p1 \div 256) + (low \div Limb), low % Limb>>

\* (uint64)a * b for uint32 a and b: the full 64-bit product.
MulU64(a, b) ==
    LET ll == MulLimbs(a[2], b[2])
        lh == MulLimbs(a[2], b[1])
        hl == MulLimbs(a[1], b[2])
        hh == MulLimbs(a[1], b[1])
        s1 == ll[1] + lh[2] + hl[2]
        s2 == lh[1] + hl[1] + hh[2] + (s1 \div Limb)
    IN  <<hh[1] + (s2 \div Limb), s2 % Limb, s1 % Limb, ll[2]>>

\* a * b in 32 bits: the product modulo 2^32, widened to a uint64.
MulU32Wrapping(a, b) ==
    LET p == MulU64(a, b) IN <<0, 0, p[3], p[4]>>

RECURSIVE LimbsLessEq(_, _)
\* a <= b for two unsigned integers of the same number of limbs.
LimbsLessEq(a, b) ==
    IF a = <<>> THEN TRUE
    ELSE IF Head(a) # Head(b) THEN Head(a) < Head(b)
    ELSE LimbsLessEq(Tail(a), Tail(b))

(***************************************************************************)
(* The value of each variable while the part of the program it belongs to  *)
(* is not running.                                                         *)
(***************************************************************************)
SmpIdle ==
    [pc |-> "idle", sample |-> 0, max_level |-> 1, start |-> 0, end |-> 1,
     rand |-> 0, y |-> 0]

DimIdle == [pc |-> "idle", width |-> ToU32(1), height |-> ToU32(1), valid |-> FALSE]

Themes ==
    {"RDT_TERRAIN", "RDT_FIELDS", "RDT_WATER", "RDT_TREES", "RDT_SNOW",
     "RDT_DESERT", "RDT_TROPICS"}

ApIdle ==
    [map_width |-> 0, map_height |-> 0, map_row |-> 0, map_col |-> 0,
     map_row_pad |-> 0, map_col_pad |-> 0, raster_scale |-> 0,
     raster_row |-> 0, raster_col |-> 0, tile |-> 0, sampled |-> FALSE]

\* Nothing has been done yet.
FxNone ==
    [passes |-> 0, proc |-> "none", proc_calls |-> 0, called |-> {},
     repeated |-> FALSE, mutated |-> FALSE, reads |-> 0,
     read_after_free |-> FALSE, frees |-> 0, dirty |-> 0]

\* A tile of the map as the classifiers see it.
PlainTile ==
    [type |-> "MP_CLEAR", slope |-> "SLOPE_FLAT", height |-> 0,
     owner |-> "OWNER_NONE", ground |-> "CLEAR_GRASS",
     tree_ground |-> "TREE_GROUND_GRASS", plantable |-> TRUE,
     zone |-> "TROPICZONE_NORMAL"]

ClIdle ==
    [pc |-> "idle", rdt |-> "RDT_TERRAIN", r |-> 0, g |-> 0, b |-> 0,
     landscape |-> "LT_TEMPERATE", tile |-> PlainTile, after |-> PlainTile,
     muts |-> <<>>]

LoadIdle ==
    /\ inp = [dft |-> "DFT_HEIGHTMAP_PNG", rdt |-> "RDT_TERRAIN",
              file |-> [status |-> "missing", width |-> 0, height |-> 0],
              heightmap_rotation |-> "HM_COUNTER_CLOCKWISE",
              map_log_x |-> MinMapLog, map_log_y |-> MinMapLog,
              pixel |-> <<0, 0, 0>>]
    /\ lr = [pc |-> "idle", x |-> 0, y |-> 0, xy_written |-> FALSE,
             raster |-> "nullptr"]
    /\ ap = ApIdle
    /\ fx = FxNone

(***************************************************************************)
(* IsValidRasterDimension (raster_io.h)                                    *)
(***************************************************************************)
\* Mutant: the product is formed in 32 bits, without the uint64 cast.
IsValidRasterDimension_NoCast(width, height) ==
    /\ LimbsLessEq(MulU32Wrapping(width, height), ToU64(MAX_RASTER_SIZE_PIXELS))
    /\ width # ToU32(0)
    /\ LimbsLessEq(width, ToU32(MAX_RASTER_SIDE_LENGTH_IN_PIXELS))
    /\ height # ToU32(0)
    /\ LimbsLessEq(height, ToU32(MAX_RASTER_SIDE_LENGTH_IN_PIXELS))

\* width and height are uint32 values (the callers pass uint and uint32).
IsValidRasterDimension(width, height) ==
    /\ LimbsLessEq(MulU64(width, height), ToU64(MAX_RASTER_SIZE_PIXELS))
    /\ width # ToU32(0)
    /\ LimbsLessEq(width, ToU32(MAX_RASTER_SIDE_LENGTH_IN_PIXELS))
    /\ height # ToU32(0)
    /\ LimbsLessEq(height, ToU32(MAX_RASTER_SIDE_LENGTH_IN_PIXELS))

(***************************************************************************)
(* One call of IsValidRasterDimension                                      *)
(***************************************************************************)
\* The values around which the dimensions are tried: zero, the side limit,
\* and sides whose product with another of them is the pixel limit.
DimLimits == {0, 2048, 16384, 65536, MAX_RASTER_SIDE_LENGTH_IN_PIXELS}

\* uint32 values near each limit, and the ends of the upper half of the
\* 32-bit range.
DimSamples ==
    {ToU32(b + d) : b \in DimLimits, d \in 0..DimSlack}
        \cup {ToU32(b - d) : b \in DimLimits \ {0}, d \in 0..DimSlack}
        \cup {<<Limb \div 2, 0>>, <<Limb - 1, Limb - 1>>}

InitDim ==
    /\ smp = SmpIdle
    /\ LoadIdle
    /\ cl = ClIdle
    /\ \E w \in DimSamples, h \in DimSamples :
          dim = [pc |-> "call", width |-> w, height |-> h, valid |-> FALSE]

DimReturn ==
    /\ dim.pc = "call"
    /\ dim' = [dim EXCEPT !.pc = "returned",
                  !.valid = IsValidRasterDimension(dim.width, dim.height)]
    /\ UNCHANGED <<smp, cl, loadVars>>

NextDim == DimReturn

SpecDim == InitDim /\ [][NextDim]_vars

(***************************************************************************)
(* RandomRange(limit) of core/random_func.hpp: a value in [0, limit), and  *)
(* 0 when limit is 0.                                                      *)
(***************************************************************************)
RandomRange(limit) == IF limit = 0 THEN {0} ELSE 0..(limit - 1)

(***************************************************************************)
(* SampleQuantizedGradient                                                 *)
(***************************************************************************)
\* x_delta = (end - start) / max_level
XDelta(max_level, start, end) == CDiv(end - start, max_level)

\* The limit handed to RandomRange: std::abs(x_delta - 2).
JitterLimit(max_level, start, end) == Abs(XDelta(max_level, start, end) - 2)

\* x % x_delta and x / std::abs(x_delta) divide by zero when x_delta is 0.
SampleTraps(max_level, start, end) == XDelta(max_level, start, end) = 0

\* Mutant: the result is not clamped to [0, max_level].
SampleQuantizedGradient_NoClamp(sample, max_level, start, end, rr) ==
    LET x_delta == XDelta(max_level, start, end)
        lo == IF start > end THEN end ELSE start
        x == Max(sample - lo, 0)
        rand == rr + 1
        y_jitter == IF CMod(x, x_delta) > rand THEN 1 ELSE 0
        y_delta == x \div Abs(x_delta)
        y == y_delta + y_jitter
    IN  IF x_delta < 0 THEN max_level - y ELSE y

\* Mutant: the result of a descending gradient is not inverted.
SampleQuantizedGradient_NoInvert(sample, max_level, start, end, rr) ==
    LET x_delta == XDelta(max_level, start, end)
        lo == IF start > end THEN end ELSE start
        x == Max(sample - lo, 0)
        rand == rr + 1
        y_jitter == IF CMod(x, x_delta) > rand THEN 1 ELSE 0
        y_delta == x \div Abs(x_delta)
    IN  Min(Max(y_delta + y_jitter, 0), max_level)

\* Mutant: the jitter comparison is reversed.
SampleQuantizedGradient_JitterBelow(sample, max_level, start, end, rr) ==
    LET x_delta == XDelta(max_level, start, end)
        lo == IF start > end THEN end ELSE start
        x == Max(sample - lo, 0)
        rand == rr + 1
        y_jitter == IF CMod(x, x_delta) < rand THEN 1 ELSE 0
        y_delta == x \div Abs(x_delta)
        y == Min(Max(y_delta + y_jitter, 0), max_level)
    IN  IF x_delta < 0 THEN max_level - y ELSE y

\* The level returned for the value rr that RandomRange returned.  Defined
\* when x_delta # 0.  x is never negative, so x % x_delta is not either and
\* its comparison with the unsigned rand is the comparison of the values.
SampleQuantizedGradient(sample, max_level, start, end, rr) ==
    LET x_delta == XDelta(max_level, start, end)
        \* if (start > end) std::swap(start, end);
        lo == IF start > end THEN end ELSE start
        x == Max(sample - lo, 0)
        rand == rr + 1
        y_jitter == IF CMod(x, x_delta) > rand THEN 1 ELSE 0
        y_delta == x \div Abs(x_delta)
        y == Min(Max(y_delta + y_jitter, 0), max_level)
    IN  IF x_delta < 0 THEN max_level - y ELSE y

(***************************************************************************)
(* One call of SampleQuantizedGradient                                     *)
(***************************************************************************)
\* The gradients tried: the one every classifier uses, ascending and
\* descending, and a narrow one whose steps are 0, 1, 2 and 3 wide.
Gradients ==
    { <<LOWER_CUTOFF, UPPER_CUTOFF>>, <<UPPER_CUTOFF, LOWER_CUTOFF>>,
      <<LOWER_CUTOFF, LOWER_CUTOFF + NarrowSpan>>,
      <<LOWER_CUTOFF + NarrowSpan, LOWER_CUTOFF>> }

InitSampler ==
    /\ dim = DimIdle
    /\ LoadIdle
    /\ cl = ClIdle
    /\ \E s \in Bytes, ml \in 1..MaxLevel, g \in Gradients :
          smp = [pc |-> "call", sample |-> s, max_level |-> ml,
                 start |-> g[1], end |-> g[2], rand |-> 0, y |-> 0]

\* The call returns a level.
SampleReturn ==
    /\ smp.pc = "call"
    /\ ~SampleTraps(smp.max_level, smp.start, smp.end)
    /\ \E rr \in RandomRange(JitterLimit(smp.max_level, smp.start, smp.end)) :
          smp' = [smp EXCEPT !.pc = "returned", !.rand = rr + 1,
                    !.y = SampleQuantizedGradient(smp.sample, smp.max_level,
                                                  smp.start, smp.end, rr)]
    /\ UNCHANGED <<dim, cl, loadVars>>

\* The call divides by zero, which is undefined: either the process is
\* stopped by SIGFPE, or the division and the remainder give some value
\* and the call goes on to clamp and return a level (x_delta is not
\* negative, so nothing is inverted).
SampleDivideByZero ==
    /\ smp.pc = "call"
    /\ SampleTraps(smp.max_level, smp.start, smp.end)
    /\ \/ smp' = [smp EXCEPT !.pc = "sigfpe"]
       \/ \E y \in 0..smp.max_level :
             smp' = [smp EXCEPT !.pc = "undefined", !.y = y]
    /\ UNCHANGED <<dim, cl, loadVars>>

NextSampler == SampleReturn \/ SampleDivideByZero

SpecSampler == InitSampler /\ [][NextSampler]_vars

(***************************************************************************)
(* The map tile and its accessors (tile_map.h, clear_map.h, tree_map.h,    *)
(* water_map.h, tree_cmd.cpp: not part of the sources at hand).  A tile is *)
(* the record of what the classifiers ask of it; a classifier call yields  *)
(* the tile it leaves and the sequence of the mutators it called.          *)
(***************************************************************************)
TileTypes == {"MP_CLEAR", "MP_TREES", "MP_WATER"}

Slopes == {"SLOPE_FLAT", "SLOPE_NW", "SLOPE_HALFTILE"}

IsHalftileSlope(slope) == slope = "SLOPE_HALFTILE"

IsTileFlat(tile) == tile.slope = "SLOPE_FLAT"

IsSnowTile(tile) == tile.ground = "CLEAR_SNOW"

CanPlantTreesOnTile(tile) == tile.plantable

Owners == {"OWNER_NONE", "OWNER_WATER", "COMPANY_FIRST"}

TreeGrounds ==
    {"TREE_GROUND_GRASS", "TREE_GROUND_ROUGH", "TREE_GROUND_SNOW_DESERT",
     "TREE_GROUND_SHORE", "TREE_GROUND_ROUGH_SNOW"}

Landscapes == {"LT_TEMPERATE", "LT_ARCTIC", "LT_TROPIC", "LT_TOYLAND"}

\* A call of a mutator: its name and its arguments.  `what' is the ground,
\* owner or zone argument, `type' the tree type, `field' the field type (a
\* uint32); an argument the mutator does not have is "none", -1 or 0.
Mutation(op, what, type, density, growth, field) ==
    [op |-> op, what |-> what, type |-> type, density |-> density,
     growth |-> growth, field |-> field]

\* The classifier has been entered and has called no mutator.
Entered(tile) == [tile |-> tile, muts |-> <<>>]

Did(st, mutation, tile) == [tile |-> tile, muts |-> Append(st.muts, mutation)]

SetClearGroundDensity(st, ground, density) ==
    Did(st, Mutation("SetClearGroundDensity", ground, -1, density, -1, ToU32(0)),
        [st.tile EXCEPT !.ground = ground])

SetTreeGroundDensity(st, ground, density) ==
    Did(st, Mutation("SetTreeGroundDensity", ground, -1, density, -1, ToU32(0)),
        [st.tile EXCEPT !.tree_ground = ground])

MakeClear(st, ground, density) ==
    Did(st, Mutation("MakeClear", ground, -1, density, -1, ToU32(0)),
        [st.tile EXCEPT !.type = "MP_CLEAR", !.ground = ground,
                        !.owner = "OWNER_NONE"])

MakeSnow(st, density) ==
    Did(st, Mutation("MakeSnow", "CLEAR_SNOW", -1, density, -1, ToU32(0)),
        [st.tile EXCEPT !.ground = "CLEAR_SNOW"])

MakeField(st, field) ==
    Did(st, Mutation("MakeField", "CLEAR_FIELDS", -1, -1, -1, field),
        [st.tile EXCEPT !.type = "MP_CLEAR", !.ground = "CLEAR_FIELDS",
                        !.owner = "OWNER_NONE"])

\* The random bits handed to MakeCanal and MakeRiver are left out.
MakeCanal(st, owner) ==
    Did(st, Mutation("MakeCanal", owner, -1, -1, -1, ToU32(0)),
        [st.tile EXCEPT !.type = "MP_WATER", !.owner = owner])

MakeRiver(st) ==
    Did(st, Mutation("MakeRiver", "OWNER_WATER", -1, -1, -1, ToU32(0)),
        [st.tile EXCEPT !.type = "MP_WATER", !.owner = "OWNER_WATER"])

MakeSea(st) ==
    Did(st, Mutation("MakeSea", "OWNER_WATER", -1, -1, -1, ToU32(0)),
        [st.tile EXCEPT !.type = "MP_WATER", !.owner = "OWNER_WATER"])

PlantTreesOnTile(st, treetype, count, growth) ==
    Did(st, Mutation("PlantTreesOnTile", "none", treetype, count, growth, ToU32(0)),
        [st.tile EXCEPT !.type = "MP_TREES"])

SetTropicZone(st, zone) ==
    Did(st, Mutation("SetTropicZone", zone, -1, -1, -1, ToU32(0)),
        [st.tile EXCEPT !.zone = zone])

(***************************************************************************)
(* TreeType and TREE_COUNT_* (tree_base.h)                                 *)
(***************************************************************************)
TREE_TEMPERATE == 0

TREE_SUB_ARCTIC == 12

TREE_RAINFOREST == 20

TREE_CACTUS == 27

TREE_SUB_TROPICAL == 28

TREE_TOYLAND == 32

TREE_INVALID == 255

TREE_COUNT_TEMPERATE == TREE_SUB_ARCTIC - TREE_TEMPERATE

TREE_COUNT_SUB_ARCTIC == TREE_RAINFOREST - TREE_SUB_ARCTIC

TREE_COUNT_RAINFOREST == TREE_CACTUS - TREE_RAINFOREST

TREE_COUNT_SUB_TROPICAL == TREE_TOYLAND - TREE_SUB_TROPICAL

TREE_COUNT_TOYLAND == 9

\* GetRandomTreeType(tile, seed) of tree_cmd.cpp: a tree of the landscape,
\* or TREE_INVALID.
GetRandomTreeType(landscape) ==
    {TREE_INVALID} \cup
    CASE landscape = "LT_TEMPERATE" ->
             TREE_TEMPERATE..(TREE_TEMPERATE + TREE_COUNT_TEMPERATE - 1)
      [] landscape = "LT_ARCTIC" ->
             TREE_SUB_ARCTIC..(TREE_SUB_ARCTIC + TREE_COUNT_SUB_ARCTIC - 1)
      [] landscape = "LT_TROPIC" ->
             TREE_RAINFOREST..(TREE_SUB_TROPICAL + TREE_COUNT_SUB_TROPICAL - 1)
      [] landscape = "LT_TOYLAND" ->
             TREE_TOYLAND..(TREE_TOYLAND + TREE_COUNT_TOYLAND - 1)

(***************************************************************************)
(* The levels SampleQuantizedGradient can return to a classifier           *)
(***************************************************************************)
\* Every level the call can return, over the values RandomRange can give.
Levels(sample, max_level, start, end) ==
    { SampleQuantizedGradient(sample, max_level, start, end, rr) :
          rr \in RandomRange(JitterLimit(max_level, start, end)) }

\* f itself, with every value computed.
Tabulated(f) == f @@ <<>>

\* <<max_level, start, end>> of the calls the classifiers make.
ClassifierGradients ==
    { <<3, UPPER_CUTOFF, LOWER_CUTOFF>>, <<1, LOWER_CUTOFF, UPPER_CUTOFF>>,
      <<6, LOWER_CUTOFF, UPPER_CUTOFF>>, <<3 + 1, LOWER_CUTOFF, UPPER_CUTOFF>>,
      <<1 + 1, LOWER_CUTOFF, UPPER_CUTOFF>> }

LevelsTable ==
    Tabulated([gr \in ClassifierGradients |->
                  Tabulated([sample \in Bytes |-> Levels(sample, gr[1], gr[2], gr[3])])])

\* Levels(sample, max_level, start, end), looked up.
SampledLevels(sample, max_level, start, end) ==
    LevelsTable[<<max_level, start, end>>][sample]

(***************************************************************************)
(* The tile classifiers.  Each gives the set of outcomes of one call: one  *)
(* outcome per choice of the random values drawn in it.                    *)
(***************************************************************************)
\* The int of C++ as the uint32 it converts to (two's complement).
U32OfInt(n) ==
    IF n >= 0 THEN ToU32(n)
    ELSE <<Limb - 1 - ((-n - 1) \div Limb), Limb - 1 - ((-n - 1) % Limb)>>

\* byte >> 4
Shr4(val) == val \div 16

\* ReplaceGround(tile, ground, density)
ReplaceGround(st, ground, density) ==
    IF st.tile.type = "MP_CLEAR"
    THEN SetClearGroundDensity(st, ground, density)
    ELSE IF st.tile.type = "MP_TREES"
    THEN CASE ground = "CLEAR_GRASS" ->
                  SetTreeGroundDensity(st, "TREE_GROUND_GRASS", density)
           [] ground = "CLEAR_ROUGH" ->
                  SetTreeGroundDensity(st, "TREE_GROUND_ROUGH", density)
           [] ground \in {"CLEAR_ROCKS", "CLEAR_FIELDS"} ->
                  MakeClear(st, ground, density)
           [] ground \in {"CLEAR_SNOW", "CLEAR_DESERT"} ->
                  SetTreeGroundDensity(st, "TREE_GROUND_SNOW_DESERT", density)
    ELSE st

\* Mutant: the grass gradient ascends from LOWER_CUTOFF to UPPER_CUTOFF.
ApplyTerrain_AscendingGrass(r, g, b, tile) ==
    IF tile.type # "MP_CLEAR" /\ tile.type # "MP_TREES" THEN {Entered(tile)}
    ELSE { LET red == IF r >= 16 /\ density < 3
                      THEN ReplaceGround(Entered(tile), "CLEAR_GRASS", density)
                      ELSE Entered(tile)
               green == IF g >= 16 /\ rough # 0
                        THEN ReplaceGround(red, "CLEAR_ROUGH", 3)
                        ELSE red
           IN  IF b >= 16 /\ rocks # 0
               THEN ReplaceGround(green, "CLEAR_ROCKS", 3)
               ELSE green :
             density \in Levels(r, 3, LOWER_CUTOFF, UPPER_CUTOFF),
             rough \in SampledLevels(g, 1, LOWER_CUTOFF, UPPER_CUTOFF),
             rocks \in SampledLevels(b, 1, LOWER_CUTOFF, UPPER_CUTOFF) }

ApplyTerrain(r, g, b, tile) ==
    IF tile.type # "MP_CLEAR" /\ tile.type # "MP_TREES" THEN {Entered(tile)}
    ELSE { LET red == IF r >= 16 /\ density < 3
                      THEN ReplaceGround(Entered(tile), "CLEAR_GRASS", density)
                      ELSE Entered(tile)
               green == IF g >= 16 /\ rough # 0
                        THEN ReplaceGround(red, "CLEAR_ROUGH", 3)
                        ELSE red
           IN  IF b >= 16 /\ rocks # 0
               THEN ReplaceGround(green, "CLEAR_ROCKS", 3)
               ELSE green :
             density \in SampledLevels(r, 3, UPPER_CUTOFF, LOWER_CUTOFF),
             rough \in SampledLevels(g, 1, LOWER_CUTOFF, UPPER_CUTOFF),
             rocks \in SampledLevels(b, 1, LOWER_CUTOFF, UPPER_CUTOFF) }

ApplyFields(r, g, b, tile) ==
    IF r < LOWER_CUTOFF THEN {Entered(tile)}
    ELSE LET \* uint field = ((r >> 4) - 1) % 9, computed in int
             field == U32OfInt(CMod(Shr4(r) - 1, 9))
         IN  { IF level # 0 THEN MakeField(Entered(tile), field) ELSE Entered(tile) :
                 level \in SampledLevels(g, 1, LOWER_CUTOFF, UPPER_CUTOFF) }

\* Mutant: the river is tried before the canal.
ApplyWater_RiverFirst(r, g, b, tile) ==
    IF g >= UPPER_CUTOFF /\ (tile.slope = "SLOPE_FLAT" \/ IsHalftileSlope(tile.slope))
    THEN {MakeRiver(Entered(tile))}
    ELSE IF r >= UPPER_CUTOFF /\ tile.slope = "SLOPE_FLAT"
    THEN {MakeCanal(Entered(tile),
                    IF tile.owner # "OWNER_WATER" THEN tile.owner ELSE "OWNER_NONE")}
    ELSE {Entered(tile)}

\* Mutant: a red pixel on a slope never falls back to a river.
ApplyWater_NoRiverFallback(r, g, b, tile) ==
    IF r >= UPPER_CUTOFF
    THEN IF tile.slope = "SLOPE_FLAT"
         THEN IF tile.owner # "OWNER_WATER"
              THEN {MakeCanal(Entered(tile), tile.owner)}
              ELSE {MakeCanal(Entered(tile), "OWNER_NONE")}
         ELSE {Entered(tile)}
    ELSE IF g >= UPPER_CUTOFF
    THEN IF tile.slope = "SLOPE_FLAT" \/ IsHalftileSlope(tile.slope)
         THEN {MakeRiver(Entered(tile))}
         ELSE {Entered(tile)}
    ELSE IF b >= UPPER_CUTOFF
    THEN IF IsTileFlat(tile) /\ tile.height = 0
         THEN {MakeSea(Entered(tile))}
         ELSE {Entered(tile)}
    ELSE {Entered(tile)}

ApplyWater(r, g, b, tile) ==
    IF r >= UPPER_CUTOFF
    THEN IF tile.slope = "SLOPE_FLAT"
         THEN IF tile.owner # "OWNER_WATER"
              THEN {MakeCanal(Entered(tile), tile.owner)}
              ELSE {MakeCanal(Entered(tile), "OWNER_NONE")}
         ELSE IF g >= UPPER_CUTOFF /\ IsHalftileSlope(tile.slope)
         THEN {MakeRiver(Entered(tile))}
         ELSE {Entered(tile)}
    ELSE IF g >= UPPER_CUTOFF
    THEN IF tile.slope = "SLOPE_FLAT" \/ IsHalftileSlope(tile.slope)
         THEN {MakeRiver(Entered(tile))}
         ELSE {Entered(tile)}
    ELSE IF b >= UPPER_CUTOFF
    THEN IF IsTileFlat(tile) /\ tile.height = 0
         THEN {MakeSea(Entered(tile))}
         ELSE {Entered(tile)}
    ELSE {Entered(tile)}

\* Defined for val >= 16, where (val >> 4) - 1 is not negative.
TreeTypeLookup(val, landscape) ==
    IF val < 16 THEN TREE_INVALID
    ELSE CASE landscape = "LT_TEMPERATE" ->
                  TREE_TEMPERATE + ((Shr4(val) - 1) % TREE_COUNT_TEMPERATE)
           [] landscape = "LT_ARCTIC" ->
                  TREE_SUB_ARCTIC + ((Shr4(val) - 1) % TREE_COUNT_SUB_ARCTIC)
           [] landscape = "LT_TROPIC" ->
                  TREE_RAINFOREST + ((Shr4(val) - 1) % TREE_COUNT_SUB_TROPICAL)
           [] landscape = "LT_TOYLAND" ->
                  TREE_TOYLAND + ((Shr4(val) - 1) % TREE_COUNT_TOYLAND)

ApplyTrees(r, g, b, tile, landscape) ==
    { LET density == level - 1
      IN  IF density < 0 THEN Entered(tile)
          ELSE IF tree = TREE_INVALID THEN Entered(tile)
          ELSE IF CanPlantTreesOnTile(tile)
          THEN PlantTreesOnTile(Entered(tile), tree, density, growth)
          ELSE Entered(tile) :
        growth \in IF r < 16 THEN {3}
                   ELSE SampledLevels(r, 6, LOWER_CUTOFF, UPPER_CUTOFF),
        level \in SampledLevels(g, 3 + 1, LOWER_CUTOFF, UPPER_CUTOFF),
        tree \in IF b < 16 THEN GetRandomTreeType(landscape)
                 ELSE {TreeTypeLookup(b, landscape)} }

\* Mutant: the level itself is the density, so level 0 is not skipped.
ApplySnow_DensityNotOffset(r, g, b, tile) ==
    { IF tile.type = "MP_CLEAR"
      THEN IF IsSnowTile(tile)
           THEN SetClearGroundDensity(Entered(tile), "CLEAR_SNOW", level)
           ELSE MakeSnow(Entered(tile), level)
      ELSE IF tile.type = "MP_TREES"
      THEN SetTreeGroundDensity(Entered(tile), "TREE_GROUND_SNOW_DESERT", level)
      ELSE Entered(tile) :
        level \in SampledLevels(b, 3 + 1, LOWER_CUTOFF, UPPER_CUTOFF) }

ApplySnow(r, g, b, tile) ==
    { LET density == level - 1
      IN  IF density < 0 THEN Entered(tile)
          ELSE IF tile.type = "MP_CLEAR"
          THEN IF IsSnowTile(tile)
               THEN SetClearGroundDensity(Entered(tile), "CLEAR_SNOW", density)
               ELSE MakeSnow(Entered(tile), density)
          ELSE IF tile.type = "MP_TREES"
          THEN IF tile.tree_ground \in {"TREE_GROUND_GRASS", "TREE_GROUND_SNOW_DESERT"}
               THEN SetTreeGroundDensity(Entered(tile), "TREE_GROUND_SNOW_DESERT", density)
               ELSE IF tile.tree_ground \in {"TREE_GROUND_ROUGH", "TREE_GROUND_ROUGH_SNOW"}
               THEN SetTreeGroundDensity(Entered(tile), "TREE_GROUND_ROUGH_SNOW", density)
               ELSE Entered(tile)
          ELSE Entered(tile) :
        level \in SampledLevels(b, 3 + 1, LOWER_CUTOFF, UPPER_CUTOFF) }

\* Mutant: the zone is tagged before the density is tested.
ApplyDesert_TagsBeforeDensityTest(r, g, b, tile) ==
    { LET density == (level * 2) - 1
          zone == IF g > UPPER_CUTOFF
                  THEN SetTropicZone(Entered(tile), "TROPICZONE_DESERT")
                  ELSE Entered(tile)
      IN  IF density < 0 THEN zone
          ELSE ReplaceGround(zone, "CLEAR_DESERT", density) :
        level \in SampledLevels(r, 1 + 1, LOWER_CUTOFF, UPPER_CUTOFF) }

ApplyDesert(r, g, b, tile) ==
    { LET density == (level * 2) - 1
          ground == ReplaceGround(Entered(tile), "CLEAR_DESERT", density)
      IN  IF density < 0 THEN Entered(tile)
          ELSE IF g > UPPER_CUTOFF
          THEN SetTropicZone(ground, "TROPICZONE_DESERT")
          ELSE ground :
        level \in SampledLevels(r, 1 + 1, LOWER_CUTOFF, UPPER_CUTOFF) }

ApplyTropics(r, g, b, tile) ==
    IF r > UPPER_CUTOFF
    THEN {SetTropicZone(Entered(tile), "TROPICZONE_DESERT")}
    ELSE IF g > UPPER_CUTOFF
    THEN {SetTropicZone(Entered(tile), "TROPICZONE_RAINFOREST")}
    ELSE IF b > UPPER_CUTOFF
    THEN {SetTropicZone(Entered(tile), "TROPICZONE_NORMAL")}
    ELSE {Entered(tile)}

(***************************************************************************)
(* One call of a classifier                                                *)
(***************************************************************************)
\* The tiles a classifier is tried on: every combination of what it asks of
\* the tile.
TilesFor(rdt) ==
    CASE rdt = "RDT_WATER" ->
             { [PlainTile EXCEPT !.slope = s, !.height = h, !.owner = o] :
                 s \in Slopes, h \in 0..1, o \in Owners }
      [] rdt = "RDT_TREES" ->
             { [PlainTile EXCEPT !.plantable = p] : p \in BOOLEAN }
      [] rdt = "RDT_SNOW" ->
             { [PlainTile EXCEPT !.ground = gr] : gr \in {"CLEAR_GRASS", "CLEAR_SNOW"} }
             \cup { [PlainTile EXCEPT !.type = "MP_TREES", !.tree_ground = tg] :
                      tg \in TreeGrounds }
             \cup { [PlainTile EXCEPT !.type = "MP_WATER"] }
      [] OTHER -> { [PlainTile EXCEPT !.type = t] : t \in TileTypes }

\* Only TreeTypeLookup reads the landscape.
LandscapesFor(rdt) == IF rdt = "RDT_TREES" THEN Landscapes ELSE {"LT_TEMPERATE"}

\* The values of the two channels that are not swept.
CoarseChannel == {0, 255}

\* The pixels a classifier is tried on: one channel takes every value while
\* the two others are at an extreme.
PixelSamples ==
    UNION { {<<v, c, d>>, <<c, v, d>>, <<c, d, v>>} :
              v \in Bytes, c \in CoarseChannel, d \in CoarseChannel }

\* proc(r, g, b, tile) is called.
InitClassify ==
    /\ smp = SmpIdle
    /\ dim = DimIdle
    /\ LoadIdle
    /\ \E rdt \in Themes, px \in PixelSamples :
          \E tile \in TilesFor(rdt), landscape \in LandscapesFor(rdt) :
             cl = [pc |-> "call", rdt |-> rdt, r |-> px[1], g |-> px[2],
                   b |-> px[3], landscape |-> landscape, tile |-> tile,
                   after |-> tile, muts |-> <<>>]

\* The call has returned with the outcome o.
Returned(o) == [cl EXCEPT !.pc = "returned", !.after = o.tile, !.muts = o.muts]

CallApplyTerrain ==
    /\ cl.pc = "call"
    /\ cl.rdt = "RDT_TERRAIN"
    /\ \E o \in ApplyTerrain(cl.r, cl.g, cl.b, cl.tile) :
          cl' = Returned(o)
    /\ UNCHANGED <<smp, dim, loadVars>>

CallApplyFields ==
    /\ cl.pc = "call"
    /\ cl.rdt = "RDT_FIELDS"
    /\ \E o \in ApplyFields(cl.r, cl.g, cl.b, cl.tile) :
          cl' = Returned(o)
    /\ UNCHANGED <<smp, dim, loadVars>>

CallApplyWater ==
    /\ cl.pc = "call"
    /\ cl.rdt = "RDT_WATER"
    /\ \E o \in ApplyWater(cl.r, cl.g, cl.b, cl.tile) :
          cl' = Returned(o)
    /\ UNCHANGED <<smp, dim, loadVars>>

CallApplyTrees ==
    /\ cl.pc = "call"
    /\ cl.rdt = "RDT_TREES"
    /\ \E o \in ApplyTrees(cl.r, cl.g, cl.b, cl.tile, cl.landscape) :
          cl' = Returned(o)
    /\ UNCHANGED <<smp, dim, loadVars>>

CallApplySnow ==
    /\ cl.pc = "call"
    /\ cl.rdt = "RDT_SNOW"
    /\ \E o \in ApplySnow(cl.r, cl.g, cl.b, cl.tile) :
          cl' = Returned(o)
    /\ UNCHANGED <<smp, dim, loadVars>>

CallApplyDesert ==
    /\ cl.pc = "call"
    /\ cl.rdt = "RDT_DESERT"
    /\ \E o \in ApplyDesert(cl.r, cl.g, cl.b, cl.tile) :
          cl' = Returned(o)
    /\ UNCHANGED <<smp, dim, loadVars>>

CallApplyTropics ==
    /\ cl.pc = "call"
    /\ cl.rdt = "RDT_TROPICS"
    /\ \E o \in ApplyTropics(cl.r, cl.g, cl.b, cl.tile) :
          cl' = Returned(o)
    /\ UNCHANGED <<smp, dim, loadVars>>

NextClassify ==
    \/ CallApplyTerrain
    \/ CallApplyFields
    \/ CallApplyWater
    \/ CallApplyTrees
    \/ CallApplySnow
    \/ CallApplyDesert
    \/ CallApplyTropics

SpecClassify == InitClassify /\ [][NextClassify]_vars

(***************************************************************************)
(* What the callback of a pass can do to the tile it is called for         *)
(***************************************************************************)
\* The outcomes of proc(r, g, b, tile) for the theme rdt.
ApplyProc(rdt, r, g, b, tile, landscape) ==
    CASE rdt = "RDT_TERRAIN" -> ApplyTerrain(r, g, b, tile)
      [] rdt = "RDT_FIELDS" -> ApplyFields(r, g, b, tile)
      [] rdt = "RDT_WATER" -> ApplyWater(r, g, b, tile)
      [] rdt = "RDT_TREES" -> ApplyTrees(r, g, b, tile, landscape)
      [] rdt = "RDT_SNOW" -> ApplySnow(r, g, b, tile)
      [] rdt = "RDT_DESERT" -> ApplyDesert(r, g, b, tile)
      [] rdt = "RDT_TROPICS" -> ApplyTropics(r, g, b, tile)

\* Every pixel of the raster has the same value, one of these.
Pixels == {<<0, 0, 0>>, <<255, 255, 255>>}

\* Every tile: every combination of what the classifiers ask of a tile.
AllTiles ==
    [type : TileTypes, slope : Slopes, height : 0..1, owner : Owners,
     ground : {"CLEAR_GRASS", "CLEAR_SNOW"}, tree_ground : TreeGrounds,
     plantable : BOOLEAN, zone : {"TROPICZONE_NORMAL"}]

\* Whether a call for a pixel can call a mutator, over every tile, every
\* landscape and every random draw: looked up per theme and pixel.
MutatesTable ==
    Tabulated([rdt \in Themes |->
        Tabulated([pixel \in Pixels |->
            { o.muts # <<>> :
                o \in UNION { ApplyProc(rdt, pixel[1], pixel[2], pixel[3], tile, landscape) :
                                tile \in AllTiles, landscape \in Landscapes } }])])

ProcMutates(rdt, pixel) == MutatesTable[rdt][pixel]

(***************************************************************************)
(* The map (map_func.h): its size, the composition of a tile index and     *)
(* the inner-tile test.                                                    *)
(***************************************************************************)
RECURSIVE Pow2(_)
Pow2(n) == IF n = 0 THEN 1 ELSE 2 * Pow2(n - 1)

MapSizeX == Pow2(inp.map_log_x)

MapSizeY == Pow2(inp.map_log_y)

\* TileXY(x, y) = (y << MapLogX()) + x
TileXY(x, y) == y * MapSizeX + x

TileX(tile) == tile % MapSizeX

TileY(tile) == tile \div MapSizeX

\* A tile that does not lie on the border of the map.
IsInnerTile(tile) ==
    /\ TileX(tile) > 0 /\ TileX(tile) < MapSizeX - 1
    /\ TileY(tile) > 0 /\ TileY(tile) < MapSizeY - 1

InnerTiles == {t \in 0..(MapSizeX * MapSizeY - 1) : IsInnerTile(t)}

(***************************************************************************)
(* ApplyRasterToMap                                                        *)
(***************************************************************************)
\* (a * num_div) / b in unsigned 32-bit arithmetic, as the two digits
\* <<hi, lo>> of the quotient in base num_div.  The product is below 2^32
\* in the program (static_assert on num_div); the quotient is formed here
\* from the quotient and remainder of a by b, which gives the same value
\* and keeps every intermediate below 2^31.
RatioDigits(a, b) == <<a \div b, ((a % b) * num_div) \div b>>

\* (a * num_div) / b as a number, where it is below 2^31.
TimesNumDivOver(a, b) == RatioDigits(a, b)[1] * num_div + RatioDigits(a, b)[2]

\* The callback LoadRaster hands to ApplyRasterToMap for each raster type.
ProcOf(rdt) ==
    CASE rdt = "RDT_TERRAIN" -> "ApplyTerrain"
      [] rdt = "RDT_FIELDS" -> "ApplyFields"
      [] rdt = "RDT_WATER" -> "ApplyWater"
      [] rdt = "RDT_TREES" -> "ApplyTrees"
      [] rdt = "RDT_SNOW" -> "ApplySnow"
      [] rdt = "RDT_DESERT" -> "ApplyDesert"
      [] rdt = "RDT_TROPICS" -> "ApplyTropics"

\* Map size as seen through the rotation: lines 63-73.
RotatedMapWidth ==
    IF inp.heightmap_rotation = "HM_COUNTER_CLOCKWISE" THEN MapSizeX ELSE MapSizeY

RotatedMapHeight ==
    IF inp.heightmap_rotation = "HM_COUNTER_CLOCKWISE" THEN MapSizeY ELSE MapSizeX

\* Lines 75-83: is the image relatively wider than the map?
ImageIsWider(raster_width, raster_height, map_width, map_height) ==
    ~LimbsLessEq(RatioDigits(raster_width, raster_height),
                 RatioDigits(map_width, map_height))

\* Lines 77 and 81: raster_scale.
RasterScale(raster_width, raster_height, map_width, map_height) ==
    IF ImageIsWider(raster_width, raster_height, map_width, map_height)
    THEN TimesNumDivOver(map_width, raster_width)
    ELSE TimesNumDivOver(map_height, raster_height)

\* Mutant: the free space is not halved.
Padding_NotHalved(extent, side, raster_scale) ==
    1 + extent - ((side * raster_scale) \div num_div)

\* Lines 78 and 82: (1 + extent - (side * raster_scale) / num_div) / 2.  The
\* scaled side never exceeds the extent, so the unsigned difference does not
\* wrap.
Padding(extent, side, raster_scale) ==
    (1 + extent - ((side * raster_scale) \div num_div)) \div 2

\* Line 78.
MapRowPad(raster_width, raster_height, map_width, map_height) ==
    IF ImageIsWider(raster_width, raster_height, map_width, map_height)
    THEN Padding(map_height, raster_height,
                 RasterScale(raster_width, raster_height, map_width, map_height))
    ELSE 0

\* Line 82.
MapColPad(raster_width, raster_height, map_width, map_height) ==
    IF ImageIsWider(raster_width, raster_height, map_width, map_height)
    THEN 0
    ELSE Padding(map_width, raster_width,
                 RasterScale(raster_width, raster_height, map_width, map_height))

\* Mutant: the coordinates are not swapped under HM_CLOCKWISE.
TileOfCell_NotSwapped(map_row, map_col) == TileXY(map_col, map_row)

\* Lines 88-92: the tile of a map row and column.
TileOfCell(map_row, map_col) ==
    IF inp.heightmap_rotation = "HM_COUNTER_CLOCKWISE"
    THEN TileXY(map_col, map_row)
    ELSE TileXY(map_row, map_col)

\* Line 95.
RasterRowOf(map_row) ==
    TimesNumDivOver(map_row - ap.map_row_pad, ap.raster_scale)

\* Mutant: the column is not mirrored under HM_COUNTER_CLOCKWISE.
RasterColOf_NotMirrored(map_col) ==
    TimesNumDivOver(map_col - ap.map_col_pad, ap.raster_scale)

\* Lines 96-104.
RasterColOf(map_col) ==
    IF inp.heightmap_rotation = "HM_COUNTER_CLOCKWISE"
    THEN TimesNumDivOver(ap.map_width - 1 - map_col - ap.map_col_pad, ap.raster_scale)
    ELSE TimesNumDivOver(map_col - ap.map_col_pad, ap.raster_scale)

\* The loop conditions of lines 86 and 87.
RowLoopContinues == ap.map_row < ap.map_height - ap.map_row_pad

ColLoopContinues == ap.map_col < ap.map_width - ap.map_col_pad

\* Lines 54-86: LoadRaster calls ApplyRasterToMap(x, y, raster, proc); the
\* map size, the scale and the paddings are computed and the row loop starts.
ApplySetup ==
    /\ lr.pc = "apply"
    /\ LET mw == RotatedMapWidth
           mh == RotatedMapHeight
       IN  ap' = [ApIdle EXCEPT
                    !.map_width = mw,
                    !.map_height = mh,
                    !.raster_scale = RasterScale(lr.x, lr.y, mw, mh),
                    !.map_row_pad = MapRowPad(lr.x, lr.y, mw, mh),
                    !.map_col_pad = MapColPad(lr.x, lr.y, mw, mh),
                    !.map_row = MapRowPad(lr.x, lr.y, mw, mh),
                    !.map_col = MapColPad(lr.x, lr.y, mw, mh)]
    /\ lr' = [lr EXCEPT !.pc = "loop"]
    /\ fx' = [fx EXCEPT !.passes = @ + 1, !.proc = ProcOf(inp.rdt)]
    /\ UNCHANGED <<smp, dim, cl, inp>>

\* Mutant: the callback is invoked without the test of line 112.
VisitCell_CallsEveryTile ==
    /\ lr.pc = "loop"
    /\ RowLoopContinues
    /\ ColLoopContinues
    /\ IF ap.raster_scale = 0
       THEN /\ lr' = [lr EXCEPT !.pc = "sigfpe"]
            /\ UNCHANGED <<ap, fx>>
       ELSE LET tile == TileOfCell(ap.map_row, ap.map_col)
                raster_row == RasterRowOf(ap.map_row)
                raster_col == RasterColOf(ap.map_col)
                sampled == [ap EXCEPT !.tile = tile, !.raster_row = raster_row,
                                      !.raster_col = raster_col, !.sampled = TRUE]
            IN  IF ~(raster_row < lr.y /\ raster_col < lr.x)
                THEN \* assert(raster_row < raster_height); assert(raster_col < raster_width);
                     /\ ap' = sampled
                     /\ lr' = [lr EXCEPT !.pc = "assert"]
                     /\ UNCHANGED fx
                ELSE /\ ap' = [sampled EXCEPT !.map_col = @ + 1]
                     /\ UNCHANGED lr
                     /\ \E mutates \in ProcMutates(inp.rdt, inp.pixel) :
                           fx' = IF TRUE
                                 THEN [fx EXCEPT
                                         !.reads = @ + 1,
                                         !.read_after_free = @ \/ lr.raster # "allocated",
                                         !.proc_calls = @ + 1,
                                         !.repeated = @ \/ tile \in fx.called,
                                         !.called = @ \cup {tile},
                                         !.mutated = @ \/ mutates]
                                 ELSE [fx EXCEPT
                                         !.reads = @ + 1,
                                         !.read_after_free = @ \/ lr.raster # "allocated"]
    /\ UNCHANGED <<smp, dim, cl, inp>>

\* Lines 87-116: one turn of the column loop.  A division by a zero
\* raster_scale stops the process, and so does either assertion.
VisitCell ==
    /\ lr.pc = "loop"
    /\ RowLoopContinues
    /\ ColLoopContinues
    /\ IF ap.raster_scale = 0
       THEN /\ lr' = [lr EXCEPT !.pc = "sigfpe"]
            /\ UNCHANGED <<ap, fx>>
       ELSE LET tile == TileOfCell(ap.map_row, ap.map_col)
                raster_row == RasterRowOf(ap.map_row)
                raster_col == RasterColOf(ap.map_col)
                sampled == [ap EXCEPT !.tile = tile, !.raster_row = raster_row,
                                      !.raster_col = raster_col, !.sampled = TRUE]
            IN  IF ~(raster_row < lr.y /\ raster_col < lr.x)
                THEN \* assert(raster_row < raster_height); assert(raster_col < raster_width);
                     /\ ap' = sampled
                     /\ lr' = [lr EXCEPT !.pc = "assert"]
                     /\ UNCHANGED fx
                ELSE /\ ap' = [sampled EXCEPT !.map_col = @ + 1]
                     /\ UNCHANGED lr
                     /\ \E mutates \in ProcMutates(inp.rdt, inp.pixel) :
                           fx' = IF IsInnerTile(tile)
                                 THEN [fx EXCEPT
                                         !.reads = @ + 1,
                                         !.read_after_free = @ \/ lr.raster # "allocated",
                                         !.proc_calls = @ + 1,
                                         !.repeated = @ \/ tile \in fx.called,
                                         !.called = @ \cup {tile},
                                         !.mutated = @ \/ mutates]
                                 ELSE [fx EXCEPT
                                         !.reads = @ + 1,
                                         !.read_after_free = @ \/ lr.raster # "allocated"]
    /\ UNCHANGED <<smp, dim, cl, inp>>

\* Lines 86-87: the column loop has ended; the next row starts.
NextRow ==
    /\ lr.pc = "loop"
    /\ RowLoopContinues
    /\ ~ColLoopContinues
    /\ ap' = [ap EXCEPT !.map_row = @ + 1, !.map_col = ap.map_col_pad]
    /\ UNCHANGED <<smp, dim, cl, inp, lr, fx>>

\* Line 118: the row loop has ended; ApplyRasterToMap returns to LoadRaster.
ApplyReturn ==
    /\ lr.pc = "loop"
    /\ ~RowLoopContinues
    /\ lr' = [lr EXCEPT !.pc = "free"]
    /\ UNCHANGED <<smp, dim, cl, inp, ap, fx>>

(***************************************************************************)
(* ReadRasterFile (raster_io.cpp)                                          *)
(***************************************************************************)
\* Mutant: the dimensions are checked after the buffer has been allocated
\* and the outputs written.
ReadRasterFile_ChecksAfterAllocating(dft, file) ==
    IF file.status # "ok"
    THEN [ok |-> FALSE, allocated |-> FALSE, written |-> FALSE]
    ELSE [ok |-> IsValidRasterDimension(ToU32(file.width), ToU32(file.height)),
          allocated |-> TRUE, written |-> TRUE]

\* What ReadRasterPNG / ReadRasterBMP do with the file: whether they return
\* true, and whether they allocated *raster and wrote *width and *height.
\* Both return false before the allocation when the file cannot be opened
\* or decoded or when its dimensions are not valid.
ReadRasterFile(dft, file) ==
    LET valid == IsValidRasterDimension(ToU32(file.width), ToU32(file.height))
        failed == [ok |-> FALSE, allocated |-> FALSE, written |-> FALSE]
        loaded == [ok |-> TRUE, allocated |-> TRUE, written |-> TRUE]
    IN  IF file.status = "missing" THEN failed
        ELSE IF dft = "DFT_HEIGHTMAP_PNG"
        THEN \* png_read_png has read the whole image before the checks
             IF file.status \in {"corrupt", "bad_bitmap"} THEN failed
             ELSE IF file.status = "wrong_type" THEN failed
             ELSE IF ~valid THEN failed
             ELSE loaded
        ELSE \* BmpReadHeader, the dimension check, then BmpReadBitmap
             IF file.status \in {"corrupt", "wrong_type"} THEN failed
             ELSE IF ~valid THEN failed
             ELSE IF file.status = "bad_bitmap" THEN failed
             ELSE loaded

(***************************************************************************)
(* LoadRaster                                                              *)
(***************************************************************************)
\* free(raster): nothing for a null pointer.
Free(raster) == IF raster = "nullptr" THEN "nullptr" ELSE "freed"

\* Lines 443-446: ReadRasterFile failed; free(raster); return.
LoadRasterReadFails ==
    /\ lr.pc = "call"
    /\ LET res == ReadRasterFile(inp.dft, inp.file)
           raster == IF res.allocated THEN "allocated" ELSE lr.raster
       IN  /\ ~res.ok
           /\ lr' = [lr EXCEPT
                       !.pc = "done",
                       !.x = IF res.written THEN inp.file.width ELSE @,
                       !.y = IF res.written THEN inp.file.height ELSE @,
                       !.xy_written = res.written,
                       !.raster = Free(raster)]
           /\ fx' = [fx EXCEPT !.frees = IF raster = "nullptr" THEN @ ELSE @ + 1]
    /\ UNCHANGED <<smp, dim, cl, inp, ap>>

\* Lines 443-448: ReadRasterFile succeeded; the switch picks the callback.
LoadRasterReadSucceeds ==
    /\ lr.pc = "call"
    /\ LET res == ReadRasterFile(inp.dft, inp.file)
       IN  /\ res.ok
           /\ lr' = [lr EXCEPT
                       !.pc = "apply",
                       !.x = IF res.written THEN inp.file.width ELSE @,
                       !.y = IF res.written THEN inp.file.height ELSE @,
                       !.xy_written = res.written,
                       !.raster = IF res.allocated THEN "allocated" ELSE @]
    /\ UNCHANGED <<smp, dim, cl, inp, ap, fx>>

\* Line 473: free(raster).
LoadRasterFree ==
    /\ lr.pc = "free"
    /\ lr' = [lr EXCEPT !.pc = "dirty", !.raster = Free(lr.raster)]
    /\ fx' = [fx EXCEPT !.frees = IF lr.raster = "nullptr" THEN @ ELSE @ + 1]
    /\ UNCHANGED <<smp, dim, cl, inp, ap>>

\* Line 475: MarkWholeScreenDirty().
LoadRasterMarkDirty ==
    /\ lr.pc = "dirty"
    /\ lr' = [lr EXCEPT !.pc = "done"]
    /\ fx' = [fx EXCEPT !.dirty = @ + 1]
    /\ UNCHANGED <<smp, dim, cl, inp, ap>>

(***************************************************************************)
(* The inputs of LoadRaster and of ApplyRasterToMap                        *)
(***************************************************************************)
Rotations == {"HM_COUNTER_CLOCKWISE", "HM_CLOCKWISE"}

MapLogs == MinMapLog..MaxMapLog

FileTypes == {"DFT_HEIGHTMAP_PNG", "DFT_HEIGHTMAP_BMP"}

FileStatuses == {"missing", "corrupt", "wrong_type", "bad_bitmap", "ok"}

\* Width and height in the header of the file LoadRaster is given: below,
\* at and above the limits, and sizes with a side above num_div.
HeaderSides == {0, 2, 3, 5462, 19000, MAX_RASTER_SIDE_LENGTH_IN_PIXELS + 1}

\* Width and height of the raster ApplyRasterToMap is given.
RasterSides == {1, 2, 3, 8, 24, 5462, 19000, MAX_RASTER_SIDE_LENGTH_IN_PIXELS}

\* LoadRaster(dft, rdt, filename, subdir) is called.
Init ==
    /\ smp = SmpIdle
    /\ dim = DimIdle
    /\ inp \in [dft : FileTypes, rdt : Themes,
                file : [status : FileStatuses, width : HeaderSides,
                        height : HeaderSides],
                heightmap_rotation : Rotations,
                map_log_x : MapLogs, map_log_y : MapLogs,
                pixel : Pixels]
    /\ lr = [pc |-> "call", x |-> 0, y |-> 0, xy_written |-> FALSE,
             raster |-> "nullptr"]
    /\ ap = ApIdle
    /\ fx = FxNone
    /\ cl = ClIdle

Next ==
    \/ LoadRasterReadFails
    \/ LoadRasterReadSucceeds
    \/ ApplySetup
    \/ VisitCell
    \/ NextRow
    \/ ApplyReturn
    \/ LoadRasterFree
    \/ LoadRasterMarkDirty

Spec == Init /\ [][Next]_vars

\* ApplyRasterToMap(x, y, raster, proc) is called on a raster of valid
\* dimensions.
InitPass ==
    /\ smp = SmpIdle
    /\ dim = DimIdle
    /\ \E w \in RasterSides, h \in RasterSides :
          /\ IsValidRasterDimension(ToU32(w), ToU32(h))
          /\ inp \in [dft : {"DFT_HEIGHTMAP_PNG"}, rdt : {"RDT_TERRAIN"},
                      file : {[status |-> "ok", width |-> w, height |-> h]},
                      heightmap_rotation : Rotations,
                      map_log_x : MapLogs, map_log_y : MapLogs,
                      pixel : Pixels]
          /\ lr = [pc |-> "apply", x |-> w, y |-> h, xy_written |-> TRUE,
                   raster |-> "allocated"]
    /\ ap = ApIdle
    /\ fx = FxNone
    /\ cl = ClIdle

NextPass == ApplySetup \/ VisitCell \/ NextRow \/ ApplyReturn

SpecPass == InitPass /\ [][NextPass]_vars

(***************************************************************************)
(* The sum of the levels returned over every value of the jitter draw,     *)
(* per ascending gradient, level count and sample value.                   *)
(***************************************************************************)
RECURSIVE SumLevels(_, _, _, _, _, _)
\* The levels for the draws lo..hi, added up.
SumLevels(sample, max_level, start, end, lo, hi) ==
    IF lo > hi THEN 0
    ELSE IF lo = hi
    THEN SampleQuantizedGradient(sample, max_level, start, end, lo)
    ELSE LET mid == (lo + hi) \div 2
         IN  SumLevels(sample, max_level, start, end, lo, mid)
             + SumLevels(sample, max_level, start, end, mid + 1, hi)

AscendingGradients == {g \in Gradients : g[1] < g[2]}

LevelSum ==
    Tabulated([g \in AscendingGradients |->
        Tabulated([ml \in 1..MaxLevel |->
            Tabulated([s \in Bytes |->
                IF SampleTraps(ml, g[1], g[2]) THEN 0
                ELSE SumLevels(s, ml, g[1], g[2], 0,
                               Max(JitterLimit(ml, g[1], g[2]), 1) - 1)])])])

(***************************************************************************)
(* Claims about SampleQuantizedGradient (SpecSampler)                      *)
(***************************************************************************)
SmpStep == XDelta(smp.max_level, smp.start, smp.end)

\* C3: for every sample value 0..255, every gradient whose step is at least
\* 1 wide (ascending or descending) and every jitter draw, the level
\* returned lies in [0, max_level].
C3_LevelInRange ==
    (smp.pc = "returned" /\ Abs(SmpStep) >= 1 /\ smp.sample \in Bytes)
        => (smp.y >= 0 /\ smp.y <= smp.max_level)

\* C3 witness: a sample beyond the end of an ascending gradient, where the
\* unclamped level would exceed max_level, returned max_level.
C3_Witness ==
    /\ smp.pc = "returned"
    /\ smp.start < smp.end
    /\ (smp.sample - smp.start) \div SmpStep > smp.max_level
    /\ smp.y = smp.max_level

\* C4: whatever the jitter draw, a sample exactly at start returns level 0
\* and a sample exactly at end returns level max_level.
C4_Extremes ==
    smp.pc = "returned"
        => /\ (smp.sample = smp.start => smp.y = 0)
           /\ (smp.sample = smp.end => smp.y = smp.max_level)

\* C4 witness: the descending gradient 240..15 with 3 levels, sampled at 15
\* with the smallest jitter threshold, returned 3; the draw ranges over
\* 1..77 there.
C4_Witness ==
    /\ smp.pc = "returned"
    /\ smp.max_level = 3 /\ smp.start = UPPER_CUTOFF /\ smp.end = LOWER_CUTOFF
    /\ smp.sample = LOWER_CUTOFF
    /\ smp.rand = 1
    /\ smp.y = 3
    /\ JitterLimit(smp.max_level, smp.start, smp.end) = 77

\* C5: for an ascending gradient the sum of the returned levels over all
\* jitter draws (the expected level times the number of draws) does not
\* decrease when the sample value increases.
C5_MonotoneInExpectation ==
    (smp.pc = "call" /\ smp.start < smp.end
        /\ ~SampleTraps(smp.max_level, smp.start, smp.end))
        => \A s2 \in Bytes :
              smp.sample <= s2 =>
                  LevelSum[<<smp.start, smp.end>>][smp.max_level][smp.sample]
                      <= LevelSum[<<smp.start, smp.end>>][smp.max_level][s2]

\* C5 witness: a call on an ascending gradient whose expected level lies
\* strictly between two levels (some draws jitter up, some do not), and
\* which returned the jittered level.
C5_Witness ==
    /\ smp.pc = "returned"
    /\ smp.start < smp.end
    /\ smp.y = ((smp.sample - smp.start) \div SmpStep) + 1
    /\ smp.y < smp.max_level
    /\ LET n == JitterLimit(smp.max_level, smp.start, smp.end)
           sum == LevelSum[<<smp.start, smp.end>>][smp.max_level][smp.sample]
       IN  /\ sum > n * (smp.y - 1)
           /\ sum < n * smp.y

\* C19: whenever the asserted preconditions hold (max_level > 0 and
\* start != end), SampleQuantizedGradient computes and returns a level
\* without dividing or taking a remainder by zero, for every sample value
\* and every random draw.
C19_NoDivisionByZero ==
    (smp.pc # "idle" /\ smp.max_level > 0 /\ smp.start # smp.end) =>
        /\ XDelta(smp.max_level, smp.start, smp.end) # 0
        /\ smp.pc \notin {"sigfpe", "undefined"}

(***************************************************************************)
(* Claims about IsValidRasterDimension (SpecDim)                           *)
(***************************************************************************)
\* The value of a uint32 below 2^31.
U32Value(a) == a[1] * Limb + a[2]

\* width*height <= MAX_RASTER_SIZE_PIXELS and both sides in
\* [1, MAX_RASTER_SIDE_LENGTH_IN_PIXELS], over the integers.  For h >= 1,
\* w * h <= m is w <= m \div h, which needs no number above 2^31.
WithinRasterLimits(width, height) ==
    /\ width[1] < Limb \div 2
    /\ height[1] < Limb \div 2
    /\ LET w == U32Value(width)
           h == U32Value(height)
       IN  /\ 1 <= w /\ w <= MAX_RASTER_SIDE_LENGTH_IN_PIXELS
           /\ 1 <= h /\ h <= MAX_RASTER_SIDE_LENGTH_IN_PIXELS
           /\ w <= MAX_RASTER_SIZE_PIXELS \div h

\* C6: IsValidRasterDimension(width, height) is true if and only if
\* width*height <= 268435456, 1 <= width <= 131072 and 1 <= height <= 131072,
\* for unsigned 32-bit width and height, the product taken without wrapping.
C6_ValidIffWithinLimits ==
    dim.pc = "returned" => (dim.valid <=> WithinRasterLimits(dim.width, dim.height))

\* C6 witness: 65536 x 65536 was rejected; both sides are within the side
\* limit and the product is 2^32, which is 0 modulo 2^32.
C6_Witness ==
    /\ dim.pc = "returned"
    /\ dim.width = ToU32(65536) /\ dim.height = ToU32(65536)
    /\ MulU32Wrapping(dim.width, dim.height) = ToU64(0)
    /\ ~dim.valid

(***************************************************************************)
(* Claims about ApplyRasterToMap (SpecPass)                                *)
(***************************************************************************)
\* ApplyRasterToMap has computed its scale and paddings.
PassIsSetUp == lr.pc \in {"loop", "assert", "sigfpe", "free", "dirty", "done"} /\ fx.passes > 0

\* The map row and column of the cell whose tile was composed last.
SampledRow ==
    IF inp.heightmap_rotation = "HM_COUNTER_CLOCKWISE" THEN TileY(ap.tile) ELSE TileX(ap.tile)

SampledCol ==
    IF inp.heightmap_rotation = "HM_COUNTER_CLOCKWISE" THEN TileX(ap.tile) ELSE TileY(ap.tile)

\* C1: for every raster of valid dimensions, every map size and both
\* rotations, every visited cell has a source row below raster_height and a
\* source column below raster_width, so neither assertion fires and every
\* pixel read lies inside the buffer of width*height*3 bytes.
C1_SampleInBounds ==
    /\ lr.pc # "assert"
    /\ ap.sampled =>
          /\ ap.raster_row < lr.y
          /\ ap.raster_col < lr.x
          /\ (ap.raster_row * lr.x + ap.raster_col) * 3 + 2 < lr.x * lr.y * 3

\* The raster and the map (as seen through the rotation) have exactly the
\* same aspect ratio.
SameAspect == lr.x * RotatedMapHeight = lr.y * RotatedMapWidth

\* C2: for a raster whose aspect ratio equals the map's, both paddings are
\* 0, and when the pass has ended the classifier has been invoked exactly
\* once for every inner tile.
C2_FullCoverage ==
    (PassIsSetUp /\ SameAspect) =>
        /\ ap.map_row_pad = 0
        /\ ap.map_col_pad = 0
        /\ ~fx.repeated
        /\ lr.pc = "free" =>
              /\ fx.called = InnerTiles
              /\ fx.proc_calls = Cardinality(InnerTiles)

\* Line 75 for the raster and map of the pass.
PassImageIsWider == ImageIsWider(lr.x, lr.y, ap.map_width, ap.map_height)

\* |2 * padding - (extent - scaled side)| <= 1
Centred(padding, extent, side) ==
    LET free == extent - ((side * ap.raster_scale) \div num_div)
    IN  2 * padding - free \in {-1, 0, 1}

\* C9: when the image is relatively wider than the map the column padding
\* is 0 and map_row_pad rows are skipped at the top and as many at the
\* bottom: the rows visited are exactly map_row_pad .. map_height -
\* map_row_pad - 1, with map_row_pad = (1 + map_height - scaled height) / 2,
\* so twice the padding differs from the free height by at most 1.
\* Otherwise the same holds of the columns.
C9_SymmetricPadding ==
    PassIsSetUp =>
        IF PassImageIsWider
        THEN /\ ap.map_col_pad = 0
             /\ ap.map_row_pad
                    = (1 + ap.map_height - ((lr.y * ap.raster_scale) \div num_div)) \div 2
             /\ Centred(ap.map_row_pad, ap.map_height, lr.y)
             /\ ap.sampled =>
                   /\ SampledRow >= ap.map_row_pad
                   /\ SampledRow < ap.map_height - ap.map_row_pad
             /\ lr.pc = "free" => ap.map_row = ap.map_height - ap.map_row_pad
        ELSE /\ ap.map_row_pad = 0
             /\ ap.map_col_pad
                    = (1 + ap.map_width - ((lr.x * ap.raster_scale) \div num_div)) \div 2
             /\ Centred(ap.map_col_pad, ap.map_width, lr.x)
             /\ ap.sampled =>
                   /\ SampledCol >= ap.map_col_pad
                   /\ SampledCol < ap.map_width - ap.map_col_pad
             /\ (lr.pc = "loop" /\ RowLoopContinues /\ ~ColLoopContinues) =>
                   ap.map_col = ap.map_width - ap.map_col_pad

\* C9 witness: a raster twice as wide as high on a square map of 8 x 8; the
\* pass skipped 2 rows at the top and 2 at the bottom and read the 4 x 8
\* cells between them.
C9_Witness ==
    /\ lr.pc = "free"
    /\ lr.x = 2 * lr.y
    /\ ap.map_width = 8 /\ ap.map_height = 8
    /\ PassImageIsWider
    /\ ap.map_row_pad = 2 /\ ap.map_col_pad = 0
    /\ ap.map_row = 6
    /\ fx.reads = 32

(***************************************************************************)
(* Claims about LoadRaster (Spec)                                          *)
(***************************************************************************)
\* The file can be opened and its header gives dimensions that
\* IsValidRasterDimension rejects.
DimensionsFail ==
    /\ inp.file.status # "missing"
    /\ ~IsValidRasterDimension(ToU32(inp.file.width), ToU32(inp.file.height))

\* C7: when the dimensions of the image fail IsValidRasterDimension, for PNG
\* and for BMP, ReadRasterFile returns false without allocating a buffer and
\* without writing width and height, and LoadRaster returns at once: no pass
\* starts, no classifier is invoked, no tile is mutated, nothing is freed
\* and MarkWholeScreenDirty is not called.
C7_InvalidDimensionsRejected ==
    DimensionsFail =>
        /\ ~ReadRasterFile(inp.dft, inp.file).ok
        /\ lr.pc \in {"call", "done"}
        /\ lr.raster = "nullptr"
        /\ ~lr.xy_written
        /\ fx.passes = 0
        /\ fx.proc_calls = 0
        /\ fx.reads = 0
        /\ ~fx.mutated
        /\ fx.frees = 0
        /\ fx.dirty = 0

\* C7 witness: a BMP that decodes but is one pixel too wide; LoadRaster has
\* returned.
C7_Witness ==
    /\ lr.pc = "done"
    /\ inp.dft = "DFT_HEIGHTMAP_BMP"
    /\ inp.file.status = "ok"
    /\ inp.file.width = MAX_RASTER_SIDE_LENGTH_IN_PIXELS + 1
    /\ inp.file.height = 2
    /\ DimensionsFail

\* LoadRaster has returned or the process has been aborted.
Terminated == lr.pc \in {"done", "assert", "sigfpe"}

\* C8: after a successful load exactly one pass runs, with the classifier of
\* the requested theme; the buffer is freed exactly once, after the last
\* pixel read, never read after the free and never freed twice, and it is
\* also freed on the failure path; MarkWholeScreenDirty is called exactly
\* once, after the pass.
C8_OnePassOneFreeOneNotification ==
    LET res == ReadRasterFile(inp.dft, inp.file)
    IN  /\ ~fx.read_after_free
        /\ fx.frees <= 1
        /\ fx.dirty <= 1
        /\ fx.passes <= 1
        /\ fx.passes = 1 => res.ok /\ fx.proc = ProcOf(inp.rdt)
        /\ fx.frees = 1 => lr.pc \in {"dirty", "done"}
        /\ fx.dirty = 1 => lr.pc = "done" /\ fx.passes = 1 /\ fx.frees = 1
        /\ Terminated =>
              /\ lr.raster # "allocated"
              /\ res.ok => fx.passes = 1 /\ fx.frees = 1 /\ fx.dirty = 1
              /\ ~res.ok => fx.passes = 0 /\ fx.dirty = 0

(***************************************************************************)
(* Claims about the classifiers (SpecClassify)                             *)
(***************************************************************************)
\* C10: ApplyWater on a flat tile with r >= 240, for every g and b, g >= 240
\* included: exactly one mutator is called, MakeCanal, never MakeRiver or
\* MakeSea; the canal gets the owner of the tile, or OWNER_NONE when that
\* owner is OWNER_WATER.
C10_FlatRedMakesCanal ==
    (/\ cl.pc = "returned"
     /\ cl.rdt = "RDT_WATER"
     /\ cl.r >= UPPER_CUTOFF
     /\ cl.tile.slope = "SLOPE_FLAT") =>
        /\ Len(cl.muts) = 1
        /\ cl.muts[1].op = "MakeCanal"
        /\ cl.muts[1].what
              = (IF cl.tile.owner = "OWNER_WATER" THEN "OWNER_NONE" ELSE cl.tile.owner)
        /\ cl.after.type = "MP_WATER"
        /\ cl.after.owner = cl.muts[1].what

\* C10 witness: r = 255, g = 255, b = 0 on a flat tile of a company, at
\* height 0, where a river and (were g lower) a sea could be made too: the
\* call has made a canal of that company.
C10_Witness ==
    /\ cl.pc = "returned"
    /\ cl.rdt = "RDT_WATER"
    /\ cl.r = 255 /\ cl.g = 255 /\ cl.b = 0
    /\ cl.tile.slope = "SLOPE_FLAT"
    /\ cl.tile.height = 0
    /\ cl.tile.owner = "COMPANY_FIRST"
    /\ Len(cl.muts) = 1
    /\ cl.muts[1].op = "MakeCanal"
    /\ cl.muts[1].what = "COMPANY_FIRST"

\* A terrain call on a clear or tree-covered tile has returned.
TerrainReturned ==
    /\ cl.pc = "returned"
    /\ cl.rdt = "RDT_TERRAIN"
    /\ cl.tile.type \in {"MP_CLEAR", "MP_TREES"}

\* The mutator calls of the red channel: those that set grass.
GrassMutations ==
    { i \in 1..Len(cl.muts) : cl.muts[i].what \in {"CLEAR_GRASS", "TREE_GROUND_GRASS"} }

\* C11 (as stated): with r = 0x0f the red channel does not alter the ground;
\* with r = 0xf0 the red channel yields the highest level of the grass
\* gradient, 3, for every value of the jitter draw.
C11_RedMaximumAtUpper ==
    TerrainReturned =>
        /\ cl.r = LOWER_CUTOFF => GrassMutations = {}
        /\ cl.r = UPPER_CUTOFF =>
              Levels(cl.r, 3, UPPER_CUTOFF, LOWER_CUTOFF) = {3}

\* C11 (amended): with r = 0x0f the red channel does not alter the ground;
\* with r = 0xf0 the red channel yields level 0, the lowest level of the
\* descending grass gradient, for every value of the jitter draw, and it
\* sets grass of density 0 as the first mutation of the call.
C11_RedLowestAtUpper ==
    TerrainReturned =>
        /\ cl.r = LOWER_CUTOFF => GrassMutations = {}
        /\ cl.r = UPPER_CUTOFF =>
              /\ Levels(cl.r, 3, UPPER_CUTOFF, LOWER_CUTOFF) = {0}
              /\ GrassMutations = {1}
              /\ cl.muts[1].density = 0
              /\ cl.muts[1].op
                    = (IF cl.tile.type = "MP_CLEAR" THEN "SetClearGroundDensity"
                       ELSE "SetTreeGroundDensity")

\* C11 witness: r = 0xf0, g = b = 0 on a clear tile; the call has set grass
\* of density 0 and nothing else.
C11_Witness ==
    /\ TerrainReturned
    /\ cl.tile.type = "MP_CLEAR"
    /\ cl.r = UPPER_CUTOFF /\ cl.g = 0 /\ cl.b = 0
    /\ Len(cl.muts) = 1
    /\ cl.muts[1].op = "SetClearGroundDensity"
    /\ cl.muts[1].what = "CLEAR_GRASS"
    /\ cl.muts[1].density = 0
    /\ cl.after.ground = "CLEAR_GRASS"

\* The calls of MakeField among the mutator calls of the classifier call.
FieldsMade == { i \in 1..Len(cl.muts) : cl.muts[i].op = "MakeField" }

\* C13: whenever ApplyFields makes a field, the field type handed to
\* MakeField is ((r >> 4) - 1) mod 9 and lies in 0..8, for every r that is
\* not ignored, that is every r >= LOWER_CUTOFF.
C13_FieldTypeInRange ==
    (cl.pc = "returned" /\ cl.rdt = "RDT_FIELDS") =>
        /\ FieldsMade # {} => cl.r >= LOWER_CUTOFF
        /\ \A i \in FieldsMade :
              /\ cl.muts[i].field = ToU32((Shr4(cl.r) - 1) % 9)
              /\ cl.muts[i].field[1] = 0
              /\ cl.muts[i].field[2] \in 0..8

\* The three rules of the water classifier in priority order: the name of
\* the mutator of the first rule that matches, and the owner it is given.
FirstWaterRule(r, g, b, tile) ==
    IF r >= UPPER_CUTOFF /\ tile.slope = "SLOPE_FLAT"
    THEN <<"MakeCanal", IF tile.owner = "OWNER_WATER" THEN "OWNER_NONE" ELSE tile.owner>>
    ELSE IF g >= UPPER_CUTOFF /\ tile.slope \in {"SLOPE_FLAT", "SLOPE_HALFTILE"}
    THEN <<"MakeRiver", "OWNER_WATER">>
    ELSE IF b >= UPPER_CUTOFF /\ tile.slope = "SLOPE_FLAT" /\ tile.height = 0
    THEN <<"MakeSea", "OWNER_WATER">>
    ELSE <<"none", "none">>

\* C14: for every slope, height, owner and (r, g, b), ApplyWater does what
\* the first matching rule of canal (r >= 240, flat), river (g >= 240, flat
\* or half-tile), sea (b >= 240, flat at height 0) says, and nothing when no
\* rule matches; it calls at most one mutator.
C14_WaterFirstMatchWins ==
    (cl.pc = "returned" /\ cl.rdt = "RDT_WATER") =>
        LET rule == FirstWaterRule(cl.r, cl.g, cl.b, cl.tile)
        IN  /\ Len(cl.muts) <= 1
            /\ rule[1] = "none" => cl.muts = <<>> /\ cl.after = cl.tile
            /\ rule[1] # "none" =>
                  /\ Len(cl.muts) = 1
                  /\ cl.muts[1].op = rule[1]
                  /\ cl.muts[1].what = rule[2]

\* C14 witness: r = 255 and g = 255 on a half-tile slope: the canal rule
\* does not match, the river rule does, and a river has been made.
C14_Witness ==
    /\ cl.pc = "returned"
    /\ cl.rdt = "RDT_WATER"
    /\ cl.r = 255 /\ cl.g = 255
    /\ cl.tile.slope = "SLOPE_HALFTILE"
    /\ Len(cl.muts) = 1
    /\ cl.muts[1].op = "MakeRiver"

\* The first species of the landscape's tree list, as TreeTypeLookup uses it.
ClimateBase(landscape) ==
    CASE landscape = "LT_TEMPERATE" -> TREE_TEMPERATE
      [] landscape = "LT_ARCTIC" -> TREE_SUB_ARCTIC
      [] landscape = "LT_TROPIC" -> TREE_RAINFOREST
      [] landscape = "LT_TOYLAND" -> TREE_TOYLAND

\* The number of species of the range that starts at ClimateBase(landscape).
ClimateRangeCount(landscape) ==
    CASE landscape = "LT_TEMPERATE" -> TREE_COUNT_TEMPERATE
      [] landscape = "LT_ARCTIC" -> TREE_COUNT_SUB_ARCTIC
      [] landscape = "LT_TROPIC" -> TREE_COUNT_RAINFOREST
      [] landscape = "LT_TOYLAND" -> TREE_COUNT_TOYLAND

TreesPlanted ==
    { i \in 1..Len(cl.muts) : cl.muts[i].op = "PlantTreesOnTile" }

\* C15: for every b >= 16 and every landscape, the species ApplyTrees plants
\* is base + (((b >> 4) - 1) mod count), with base the first species of the
\* landscape and count the number of species of the range starting at base,
\* so it lies in [base, base + count).
C15_SpeciesOfClimateRange ==
    (cl.pc = "returned" /\ cl.rdt = "RDT_TREES" /\ cl.b >= 16) =>
        \A i \in TreesPlanted :
            /\ cl.muts[i].type =
                  ClimateBase(cl.landscape)
                      + ((Shr4(cl.b) - 1) % ClimateRangeCount(cl.landscape))
            /\ cl.muts[i].type >= ClimateBase(cl.landscape)
            /\ cl.muts[i].type <
                  ClimateBase(cl.landscape) + ClimateRangeCount(cl.landscape)

DesertReturned == cl.pc = "returned" /\ cl.rdt = "RDT_DESERT"

\* The mutator calls that replace the ground with desert.
DesertMutations ==
    { i \in 1..Len(cl.muts) :
        /\ cl.muts[i].op \in {"SetClearGroundDensity", "SetTreeGroundDensity", "MakeClear"}
        /\ cl.muts[i].what \in {"CLEAR_DESERT", "TREE_GROUND_SNOW_DESERT"} }

\* The mutator calls that tag the zone of the tile.
ZoneMutations ==
    { i \in 1..Len(cl.muts) : cl.muts[i].op = "SetTropicZone" }

\* Some draw gives ApplyDesert a density that is not negative.
DesertDensityCanBeSet ==
    \E level \in Levels(cl.r, 1 + 1, LOWER_CUTOFF, UPPER_CUTOFF) : (level * 2) - 1 >= 0

\* C18 as stated: a call of ApplyDesert mutates nothing or replaces the
\* ground with desert of density 1 or 3; the zone is tagged desert only when
\* the ground has been replaced and g > 240.
C18_ZoneOnlyWithGroundReplaced ==
    DesertReturned =>
        /\ \/ cl.muts = <<>>
           \/ /\ DesertMutations # {}
              /\ \A i \in DesertMutations : cl.muts[i].density \in {1, 3}
        /\ ZoneMutations # {} => (DesertMutations # {} /\ cl.g > UPPER_CUTOFF)
        /\ ~DesertDensityCanBeSet => cl.muts = <<>>

\* C18, amended: a call of ApplyDesert mutates nothing when the density is
\* negative, whatever g is; otherwise it hands desert of density 1 or 3 to
\* ReplaceGround, which replaces the ground of a clear or tree tile and
\* leaves every other tile alone, and it tags the zone desert exactly when
\* g > 240, on every type of tile.
C18_ZoneWheneverDensitySet ==
    DesertReturned =>
        /\ ~DesertDensityCanBeSet => cl.muts = <<>>
        /\ \A i \in 1..Len(cl.muts) : i \in DesertMutations \cup ZoneMutations
        /\ \A i \in DesertMutations : cl.muts[i].density \in {1, 3}
        /\ Cardinality(DesertMutations) <= 1
        /\ Cardinality(ZoneMutations) <= 1
        /\ DesertMutations # {} => cl.tile.type \in {"MP_CLEAR", "MP_TREES"}
        /\ (cl.muts # <<>> /\ cl.tile.type \in {"MP_CLEAR", "MP_TREES"}) =>
              DesertMutations # {}
        /\ \A i \in ZoneMutations :
              /\ cl.g > UPPER_CUTOFF
              /\ cl.muts[i].what = "TROPICZONE_DESERT"
              /\ DesertDensityCanBeSet
        /\ (cl.muts # <<>> /\ cl.g > UPPER_CUTOFF) => ZoneMutations # {}
        /\ (cl.muts # <<>> /\ cl.g <= UPPER_CUTOFF) => DesertMutations # {}

\* C18 witness: r = 255 and g = 255 on a clear tile: the ground has been
\* replaced with desert of density 3 and the zone has been tagged desert.
C18_Witness ==
    /\ DesertReturned
    /\ cl.r = 255 /\ cl.g = 255
    /\ cl.tile.type = "MP_CLEAR"
    /\ Len(cl.muts) = 2
    /\ cl.muts[1].op = "SetClearGroundDensity"
    /\ cl.muts[1].density = 3
    /\ cl.muts[2].op = "SetTropicZone"
    /\ cl.after.zone = "TROPICZONE_DESERT"

(***************************************************************************)
(* Further claims about LoadRaster (Spec)                                  *)
(***************************************************************************)
\* C12: for each of the seven raster types, a callback call with
\* r = g = b = 0 calls no mutator, for every tile (type, slope, height,
\* owner, ground) and every random draw; hence a pass over a raster whose
\* pixels are all zero mutates no tile.
C12_ZeroRasterChangesNothing ==
    inp.pixel = <<0, 0, 0>> =>
        /\ ProcMutates(inp.rdt, inp.pixel) = {FALSE}
        /\ ~fx.mutated

\* C12 witness: LoadRaster has returned after a pass that read a 2 x 2
\* raster of zeros for an 8 x 8 map and called the callback for each of the
\* 36 inner tiles.
C12_Witness ==
    /\ lr.pc = "done"
    /\ inp.pixel = <<0, 0, 0>>
    /\ lr.x = 2 /\ lr.y = 2
    /\ inp.map_log_x = 3 /\ inp.map_log_y = 3
    /\ fx.passes = 1
    /\ fx.proc_calls = 36
    /\ ~fx.mutated

(***************************************************************************)
(* Further claims about ApplyRasterToMap (SpecPass)                        *)
(***************************************************************************)
\* q is the quotient (a * num_div) / raster_scale of a non-negative a.
IsScaledBack(q, a) ==
    /\ a >= 0
    /\ q * ap.raster_scale <= a * num_div
    /\ a * num_div < (q + 1) * ap.raster_scale

\* (a * num_div) / raster_scale for an offset a that may be negative or as
\* large as a raster side, as its two digits in base num_div.
ScaledBackDigits(a) ==
    IF a >= 0
    THEN RatioDigits(a, ap.raster_scale)
    ELSE <<0, CDiv(a * num_div, ap.raster_scale)>>

\* C16 as stated: under HM_COUNTER_CLOCKWISE the source column comes from
\* the offset raster_width - 1 - map_col - map_col_pad (the width of the
\* image), under HM_CLOCKWISE from map_col - map_col_pad, each times
\* num_div / raster_scale; the source row is (map_row - map_row_pad) *
\* num_div / raster_scale in both rotations.
C16_MirroredByImageWidth ==
    ap.sampled =>
        /\ IsScaledBack(ap.raster_row, SampledRow - ap.map_row_pad)
        /\ <<ap.raster_col \div num_div, ap.raster_col % num_div>> =
              ScaledBackDigits(
                  IF inp.heightmap_rotation = "HM_COUNTER_CLOCKWISE"
                  THEN lr.x - 1 - SampledCol - ap.map_col_pad
                  ELSE SampledCol - ap.map_col_pad)

\* C16, amended: under HM_COUNTER_CLOCKWISE the source column comes from the
\* offset map_width - 1 - map_col - map_col_pad (the width of the map as
\* seen through the rotation), under HM_CLOCKWISE from map_col -
\* map_col_pad, each times num_div / raster_scale; the source row is
\* (map_row - map_row_pad) * num_div / raster_scale in both rotations.
C16_MirroredByMapWidth ==
    ap.sampled =>
        /\ IsScaledBack(ap.raster_row, SampledRow - ap.map_row_pad)
        /\ IsScaledBack(ap.raster_col,
                        IF inp.heightmap_rotation = "HM_COUNTER_CLOCKWISE"
                        THEN ap.map_width - 1 - SampledCol - ap.map_col_pad
                        ELSE SampledCol - ap.map_col_pad)

\* C16 witness: under HM_COUNTER_CLOCKWISE, with columns padded and an image
\* narrower than the map, the first visited column of a row has been
\* sampled from a source column to the right of the image's first.
C16_Witness ==
    /\ ap.sampled
    /\ lr.pc = "loop"
    /\ inp.heightmap_rotation = "HM_COUNTER_CLOCKWISE"
    /\ ap.map_col_pad > 0
    /\ lr.x < ap.map_width
    /\ SampledCol = ap.map_col_pad
    /\ ap.raster_col > 0

\* The map row and column of a tile, as seen through the rotation.
RowOfTile(tile) ==
    IF inp.heightmap_rotation = "HM_COUNTER_CLOCKWISE" THEN TileY(tile) ELSE TileX(tile)

ColOfTile(tile) ==
    IF inp.heightmap_rotation = "HM_COUNTER_CLOCKWISE" THEN TileX(tile) ELSE TileY(tile)

\* C17: during a pass the callback is invoked only for tiles whose row lies
\* in [map_row_pad, map_height - map_row_pad), whose column lies in
\* [map_col_pad, map_width - map_col_pad) and that are inner tiles; nothing
\* is changed without such a call, and no tile is called more than once.
C17_OnlyVisitedInnerTilesCalled ==
    PassIsSetUp =>
        /\ \A t \in fx.called :
              /\ RowOfTile(t) >= ap.map_row_pad
              /\ RowOfTile(t) < ap.map_height - ap.map_row_pad
              /\ ColOfTile(t) >= ap.map_col_pad
              /\ ColOfTile(t) < ap.map_width - ap.map_col_pad
              /\ IsInnerTile(t)
        /\ fx.called \subseteq InnerTiles
        /\ fx.mutated => fx.called # {}
        /\ ~fx.repeated
        /\ fx.proc_calls = Cardinality(fx.called)

\* C17 witness: a pass with padded rows on a non-square map has ended; it
\* read border tiles without calling the callback for them, and called it
\* for some tiles but not for every inner tile.
C17_Witness ==
    /\ lr.pc = "free"
    /\ MapSizeX # MapSizeY
    /\ ap.map_row_pad > 0
    /\ fx.called # {}
    /\ fx.called # InnerTiles
    /\ fx.reads > fx.proc_calls

\* The rows and the columns the loops of a pass visit.
VisitedRows == ap.map_row_pad..(ap.map_height - ap.map_row_pad - 1)

VisitedCols == ap.map_col_pad..(ap.map_width - ap.map_col_pad - 1)

ComposedTiles == { TileOfCell(row, col) : row \in VisitedRows, col \in VisitedCols }

\* C20: for both rotations and every map size, non-square maps included,
\* every tile composed by a pass lies on the map, with x < MapSizeX and
\* y < MapSizeY equal to the coordinates it was composed from, and distinct
\* visited (row, column) pairs compose distinct tiles.  The cells of a pass
\* are fixed when its loops start, so the first conjunct speaks of all of
\* them there; the second follows the tile composed at each step.
C20_ComposedTilesOnMapAndDistinct ==
    /\ (lr.pc = "loop" /\ fx.passes > 0 /\ ~ap.sampled) =>
          /\ \A row \in VisitedRows, col \in VisitedCols :
                LET tile == TileOfCell(row, col)
                IN  /\ tile >= 0
                    /\ tile < MapSizeX * MapSizeY
                    /\ TileX(tile) < MapSizeX
                    /\ TileY(tile) < MapSizeY
                    /\ RowOfTile(tile) = row
                    /\ ColOfTile(tile) = col
          /\ Cardinality(ComposedTiles)
                = Cardinality(VisitedRows) * Cardinality(VisitedCols)
    /\ (PassIsSetUp /\ ap.sampled) =>
          /\ ap.tile >= 0
          /\ ap.tile < MapSizeX * MapSizeY
          /\ RowOfTile(ap.tile) \in VisitedRows
          /\ ColOfTile(ap.tile) \in VisitedCols

\* C20 witness: under HM_CLOCKWISE on a map wider than high, a tile whose x
\* is at least MapSizeY has been composed (from a row that is no column of
\* the unrotated map).
C20_Witness ==
    /\ ap.sampled
    /\ inp.heightmap_rotation = "HM_CLOCKWISE"
    /\ MapSizeX > MapSizeY
    /\ TileX(ap.tile) >= MapSizeY
    /\ TileY(ap.tile) > 0

=============================================================================
